---------------------------- MODULE Spec2Model ----------------------------
(***************************************************************************)
(* Model of chart_scanner.py: the quant scoring engine                     *)
(* (ScannerWorker.analyze_symbol, ScannerWorker.calculate_lot), the scan   *)
(* loop (ScannerWorker.run) and the start/stop control of the GUI thread   *)
(* (ScannerGUI.on_check, ScannerGUI.toggle_scan).                          *)
(*                                                                         *)
(* Numbers.  The program computes in IEEE doubles (numpy.float64 for every *)
(* value derived from the indicator row, Python floats for quote and       *)
(* symbol metadata).  The model computes in exact extended rationals: a    *)
(* value is a record [n, d]; d > 0 is the rational n/d in lowest terms,    *)
(* d = 0 is a non-finite double: n = 0 is NaN, n = 1 is +inf, n = -1 is    *)
(* -inf.  A numpy division by zero yields inf or NaN (a warning, no        *)
(* exception); a division of two Python floats by zero raises              *)
(* ZeroDivisionError.  The builtins min and max keep their first argument  *)
(* unless the second compares smaller (larger), so a NaN first argument    *)
(* survives them.  Rounding of doubles is not modelled: where the exact    *)
(* weighted score lies on a tie of round(x, 1) the model rounds half to    *)
(* even while the double may fall on either side of the tie.               *)
(*                                                                         *)
(* Units.  Prices (close, ema, atr, channel, bid, ask, point) are integer  *)
(* multiples of one price unit.  ATR_MULTIPLIER is 1.5, so the Opportunity *)
(* field sl is kept in half price units; rr_ratio is kept in halves (the   *)
(* constructor's 1.5 is 3, the GUI default 2.0 is 4), so tp is kept in     *)
(* quarter price units.  Volumes are integer multiples of one volume unit, *)
(* risk_per_trade is in tenths of a percent (the default 0.5 is 5).        *)
(***************************************************************************)
EXTENDS Integers, Sequences, FiniteSets

VARIABLES
    is_running,        \* ScannerWorker.is_running
    active_symbols,    \* ScannerWorker.active_symbols
    risk_per_trade,    \* ScannerWorker.risk_per_trade
    rr_ratio,          \* ScannerWorker.rr_ratio
    initial_equity,    \* ScannerWorker.initial_equity
    selected_symbols,  \* ScannerGUI.selected_symbols
    btn_scan,          \* text of ScannerGUI.btn_scan
    pc,                \* position of the worker thread in run()
    todo,              \* the symbols the for loop of run() has still to visit
    opportunities,     \* the local list of run()
    mt5_connected,     \* whether the MetaTrader connection is open
    log_signal,        \* what the last step emitted on log_signal
    stats_signal,      \* what the last step emitted on stats_signal
    scanner_signal,    \* what the last step emitted on scanner_signal
    analysed,          \* history: <<symbol, feed>> of this cycle's analyses
    stop_requested,    \* history: toggle_scan took its stop branch in this run
    start_pending,     \* history: a start branch no cycle has served yet
    run_log,           \* history: counters of the current start attempt
    input,             \* argument of the function under study
    output             \* its result

vars == <<is_running, active_symbols, risk_per_trade, rr_ratio, initial_equity,
          selected_symbols, btn_scan, pc, todo, opportunities, mt5_connected,
          log_signal, stats_signal, scanner_signal, analysed, stop_requested,
          start_pending, run_log, input, output>>

-----------------------------------------------------------------------------
(* Bounds of the model *)

MaxAtr == 2

MaxVolume == 3

MaxStopPoints == 3

-----------------------------------------------------------------------------
(* Program constants *)

\* PropGuardConfig.ATR_MULTIPLIER = 1.5, in halves
ATR_MULTIPLIER_HALVES == 3

\* bars = 250 in analyze_symbol
BARS == 250

\* the 20 of (curr['adx'] - 20) / 25 and the 50 of the RSI curves
ADX_FLOOR == 20

ADX_RANGE == 25

RSI_MID == 50

RSI_RANGE == 25

-----------------------------------------------------------------------------
(* Extended rationals: the doubles of the program *)

Abs(k) == IF k < 0 THEN -k ELSE k

Sign(k) == IF k > 0 THEN 1 ELSE IF k < 0 THEN -1 ELSE 0

RECURSIVE GCD(_, _)
GCD(a, b) == IF b = 0 THEN a ELSE GCD(b, a % b)

NaN == [n |-> 0, d |-> 0]

Inf(s) == [n |-> s, d |-> 0]

Fin(n, d) ==
    LET g == GCD(Abs(n), d)
    IN  [n |-> n \div g, d |-> d \div g]

Num(k) == [n |-> k, d |-> 1]

IsFinite(x) == x.d > 0

IsNaN(x) == x.d = 0 /\ x.n = 0

\* a < b on doubles: false as soon as one side is NaN
XLt(a, b) ==
    IF IsNaN(a) \/ IsNaN(b) THEN FALSE
    ELSE IF IsFinite(a) /\ IsFinite(b) THEN a.n * b.d < b.n * a.d
    ELSE IF IsFinite(a) THEN b.n = 1
    ELSE IF IsFinite(b) THEN a.n = -1
    ELSE a.n < b.n

XLe(a, b) ==
    IF IsNaN(a) \/ IsNaN(b) THEN FALSE ELSE ~XLt(b, a)

XNeg(a) == [n |-> -a.n, d |-> a.d]

XAdd(a, b) ==
    IF IsNaN(a) \/ IsNaN(b) THEN NaN
    ELSE IF IsFinite(a) /\ IsFinite(b) THEN Fin(a.n * b.d + b.n * a.d, a.d * b.d)
    ELSE IF IsFinite(a) THEN b
    ELSE IF IsFinite(b) THEN a
    ELSE IF a.n = b.n THEN a ELSE NaN

XSub(a, b) == XAdd(a, XNeg(b))

XMul(a, b) ==
    IF IsNaN(a) \/ IsNaN(b) THEN NaN
    ELSE IF IsFinite(a) /\ IsFinite(b) THEN Fin(a.n * b.n, a.d * b.d)
    ELSE IF Sign(a.n) * Sign(b.n) = 0 THEN NaN
    ELSE Inf(Sign(a.n) * Sign(b.n))

\* numpy's a / b: no exception, x/0 is inf, 0/0 is NaN
XDiv(a, b) ==
    IF IsNaN(a) \/ IsNaN(b) THEN NaN
    ELSE IF IsFinite(b) /\ b.n # 0
         THEN IF IsFinite(a) THEN Fin(a.n * b.d * Sign(b.n), a.d * Abs(b.n))
              ELSE Inf(a.n * Sign(b.n))
    ELSE IF IsFinite(b)
         THEN IF Sign(a.n) = 0 THEN NaN ELSE Inf(Sign(a.n))
    ELSE IF IsFinite(a) THEN Num(0) ELSE NaN

\* the builtin min(a, b): b if b < a else a
PyMin(a, b) == IF XLt(b, a) THEN b ELSE a

\* the builtin max(a, b): b if b > a else a
PyMax(a, b) == IF XLt(a, b) THEN b ELSE a

XAbs(a) == [n |-> Abs(a.n), d |-> a.d]

\* round(n/d) for n >= 0, d > 0: to the nearest integer, ties to even
RoundHalfEven(n, d) ==
    LET q == n \div d
        r == n % d
    IN  IF 2 * r < d THEN q
        ELSE IF 2 * r > d THEN q + 1
        ELSE IF q % 2 = 0 THEN q ELSE q + 1

\* round(x, 1): a finite x to one decimal, inf and NaN unchanged
Round1(x) ==
    IF ~IsFinite(x) THEN x
    ELSE Fin(Sign(x.n) * RoundHalfEven(10 * Abs(x.n), x.d), 10)

-----------------------------------------------------------------------------
(* What the provider and the indicator library answer during one call of   *)
(* analyze_symbol: a feed.                                                 *)
(*   rates       number of bars copy_rates_from_pos returned, -1 for None  *)
(*   ta_ok       FALSE when an indicator call raises                       *)
(*   close .. dcl  the last row of the frame (curr)                        *)
(*   tick_ok, bid, ask          symbol_info_tick, FALSE for None           *)
(*   info_ok, point             symbol_info at line 168, FALSE for None    *)
(*   acct_ok, balance           account_info in calculate_lot              *)
(*   lot_info_ok, trade_tick_value, volume_*   symbol_info in calculate_lot*)

None == [none |-> TRUE]

Raised == [raised |-> TRUE]

IsOpportunity(x) == "symbol" \in DOMAIN x

\* calculate_lot(symbol, sl_points); sl_points is an extended rational.
\* The result is a volume in volume units, or Raised.
\* a sizing guard that forgets the stop distance
zero_sizing_tick_only(f, sl_points) == f.trade_tick_value = 0

\* line 222: if tick_value == 0 or sl_points == 0
zero_sizing(f, sl_points) == f.trade_tick_value = 0 \/ sl_points = Num(0)

\* a clamp that forgets the broker's minimum
clamp_lot_no_min(lot, f) == IF lot <= f.volume_max THEN lot ELSE f.volume_max

\* line 227: max(lot, volume_min) if lot <= volume_max else volume_max
clamp_lot(lot, f) ==
    IF lot <= f.volume_max
    THEN IF f.volume_min > lot THEN f.volume_min ELSE lot
    ELSE f.volume_max

calculate_lot(f, risk, sl_points) ==
    IF ~f.acct_ok THEN Raised                      \* None.balance
    ELSE
    LET risk_money == Fin(f.balance * risk, 1000)
    IN  IF ~f.lot_info_ok THEN [lots |-> 0]
        ELSE IF zero_sizing(f, sl_points) THEN [lots |-> 0]
        ELSE
        LET raw_lot == XDiv(risk_money, XMul(sl_points, Num(f.trade_tick_value)))
            steps   == XDiv(raw_lot, Num(f.volume_step))
        IN  IF ~IsFinite(steps) THEN Raised        \* round() of inf or nan
            ELSE [lots |-> clamp_lot(RoundHalfEven(steps.n, steps.d) * f.volume_step, f)]

\* a bias that counts a close on the trend filter as bullish
Bias_no_neutral(f) == IF f.close >= f.ema THEN "BULLISH" ELSE "BEARISH"

Bias(f) ==
    IF f.close > f.ema THEN "BULLISH"
    ELSE IF f.close < f.ema THEN "BEARISH"
    ELSE "NEUTRAL"

\* A. Trend Strength
score_trend(f) ==
    LET ema_dist  == Num(Abs(f.close - f.ema))
        trend_str == PyMin(XDiv(ema_dist, Num(f.atr * 2)), Num(1))
        adx_norm  == PyMin(PyMax(Fin(f.adx - ADX_FLOOR, ADX_RANGE), Num(0)), Num(1))
    IN  XAdd(XMul(Fin(6, 10), trend_str), XMul(Fin(4, 10), adx_norm))

\* B. Momentum Alignment
score_mom(f) ==
    IF Bias(f) = "BULLISH"
    THEN PyMax(PyMin(Fin(f.rsi - RSI_MID, RSI_RANGE), Num(1)), Num(0))
    ELSE IF Bias(f) = "BEARISH"
    THEN PyMax(PyMin(Fin(RSI_MID - f.rsi, RSI_RANGE), Num(1)), Num(0))
    ELSE Num(0)

\* C. Volatility Quality
score_vol(f) ==
    LET atr_pct == XDiv(Num(f.atr), Num(f.close))
    IN  PyMin(PyMax(XDiv(XSub(atr_pct, Fin(5, 10000)), Fin(2, 1000)), Num(0)), Num(1))

\* D. Structure Proximity
score_struct(f) ==
    LET dist_to_break == IF Bias(f) = "BULLISH" THEN Num(Abs(f.dcu - f.ask))
                         ELSE Num(Abs(f.bid - f.dcl))
    IN  XSub(Num(1), PyMin(XDiv(dist_to_break, Fin(f.atr * 3, 2)), Num(1)))

\* a liquidity score without the floor at 0
score_liq_no_floor(f) ==
    LET spread_points == Fin(f.ask - f.bid, f.point)
        atr_points    == XDiv(Num(f.atr), Num(f.point))
    IN  XSub(Num(1), XDiv(spread_points, XMul(atr_points, Fin(2, 10))))

\* E. Liquidity Quality (point # 0: the caller has divided by it already)
score_liq(f) ==
    LET spread_points == Fin(f.ask - f.bid, f.point)
        atr_points    == XDiv(Num(f.atr), Num(f.point))
    IN  PyMax(XSub(Num(1), XDiv(spread_points, XMul(atr_points, Fin(2, 10)))), Num(0))

final_score(f) ==
    Round1(XMul(Num(100),
        XAdd(XMul(Fin(30, 100), score_trend(f)),
        XAdd(XMul(Fin(20, 100), score_mom(f)),
        XAdd(XMul(Fin(15, 100), score_vol(f)),
        XAdd(XMul(Fin(25, 100), score_struct(f)),
             XMul(Fin(10, 100), score_liq(f))))))))

\* entry in price units, sl in halves, tp in quarters (rr is in halves)
TradeSetup(f, rr) ==
    IF Bias(f) = "BULLISH"
    THEN LET sl == 2 * f.ask - ATR_MULTIPLIER_HALVES * f.atr
         IN  [entry |-> f.ask, sl |-> sl, tp |-> 4 * f.ask + (2 * f.ask - sl) * rr]
    ELSE LET sl == 2 * f.bid + ATR_MULTIPLIER_HALVES * f.atr
         IN  [entry |-> f.bid, sl |-> sl, tp |-> 4 * f.bid - (sl - 2 * f.bid) * rr]

\* analyze_symbol(symbol): an Opportunity, or None.  Every exception is
\* caught by the except clause and becomes None.
analyze_symbol(symbol, f, rr, risk) ==
    IF f.rates = -1 \/ f.rates < BARS THEN None
    ELSE IF ~f.ta_ok THEN None
    ELSE IF ~f.tick_ok THEN None
    ELSE IF ~f.info_ok THEN None                   \* None.point raises
    ELSE IF f.point = 0 THEN None                  \* ZeroDivisionError
    ELSE
    LET setup     == TradeSetup(f, rr)
        sl_points == Fin(Abs(2 * setup.entry - setup.sl), 2 * f.point)
        lot_size  == calculate_lot(f, risk, sl_points)
    IN  IF lot_size = Raised THEN None
        ELSE [symbol |-> symbol,
              score  |-> final_score(f),
              bias   |-> Bias(f),
              price  |-> setup.entry,
              sl     |-> setup.sl,
              tp     |-> setup.tp,
              lots   |-> lot_size.lots,
              adx    |-> f.adx]

-----------------------------------------------------------------------------
(* The answers the model draws from *)

\* a healthy answer: every call succeeds, a plain bullish market
Healthy ==
    [rates |-> BARS, ta_ok |-> TRUE, close |-> 2002, ema |-> 2000, atr |-> 2,
     adx |-> 35, rsi |-> 70, dcu |-> 2006, dcl |-> 1996,
     tick_ok |-> TRUE, bid |-> 2002, ask |-> 2002,
     info_ok |-> TRUE, point |-> 1,
     acct_ok |-> TRUE, balance |-> 1000,
     lot_info_ok |-> TRUE, trade_tick_value |-> 1,
     volume_min |-> 1, volume_max |-> 4, volume_step |-> 1]

\* the ways one call of the chain can fail
Failures ==
    { [Healthy EXCEPT !.rates = -1], [Healthy EXCEPT !.rates = BARS - 1],
      [Healthy EXCEPT !.ta_ok = FALSE], [Healthy EXCEPT !.tick_ok = FALSE],
      [Healthy EXCEPT !.info_ok = FALSE], [Healthy EXCEPT !.point = 0],
      [Healthy EXCEPT !.acct_ok = FALSE], [Healthy EXCEPT !.lot_info_ok = FALSE] }

\* markets: every call succeeds, the numbers vary
Markets ==
    { [Healthy EXCEPT !.close = c, !.atr = a, !.adx = x, !.rsi = r,
                      !.bid = c, !.ask = c + s, !.point = p,
                      !.trade_tick_value = t] :
        c \in {1, 1996, 2000, 2001, 2006}, a \in 0 .. MaxAtr, x \in {10, 35, 60},
        r \in {20, 60, 90}, s \in {-1, 0, 1}, p \in {1, 2}, t \in {0, 1} }

AnalyzeInputs ==
    [symbol : {"EURUSD"}, feed : Markets \cup Failures, rr : {3, 4}, risk : {5}]

\* the arguments of calculate_lot: account, metadata and stop distance
LotInputs ==
    [acct_ok : {TRUE}, balance : {200, 1000}, risk : {5, 10},
     lot_info_ok : {TRUE}, trade_tick_value : 0 .. 2,
     volume_min : 1 .. MaxVolume, volume_max : 1 .. MaxVolume + 1,
     volume_step : 1 .. MaxVolume,
     sl_points : {Fin(k, 2) : k \in 0 .. 2 * MaxStopPoints}]

Pending == [pending |-> TRUE]

-----------------------------------------------------------------------------
(* The state after ScannerWorker.__init__ and ScannerGUI.__init__ *)

\* run_log before any start: what happened to the latest start attempt
NoRun == [outcome |-> "none", connects |-> 0, fail_logs |-> 0, shutdowns |-> 0,
          emitted |-> FALSE, equity_before |-> 0]

Constructed ==
    /\ is_running = FALSE
    /\ active_symbols = <<>>
    /\ risk_per_trade = 5
    /\ rr_ratio = 3
    /\ initial_equity = 0
    /\ selected_symbols = {}
    /\ btn_scan = "START"
    /\ pc = "idle"
    /\ todo = <<>>
    /\ opportunities = <<>>
    /\ mt5_connected = FALSE
    /\ log_signal = "-"
    /\ stats_signal = None
    /\ scanner_signal = None
    /\ analysed = <<>>
    /\ stop_requested = FALSE
    /\ start_pending = FALSE
    /\ run_log = NoRun

loop_vars == <<is_running, active_symbols, risk_per_trade, rr_ratio,
               initial_equity, selected_symbols, btn_scan, pc, todo,
               opportunities, mt5_connected, log_signal, stats_signal,
               scanner_signal, analysed, stop_requested, start_pending, run_log>>

-----------------------------------------------------------------------------
(* list.sort(key=lambda x: x['score'], reverse=True) as CPython runs it on *)
(* a short list: the list is reversed, sorted ascending and stably by      *)
(* count_run and binarysort (listobject.c), and reversed again.  The only  *)
(* comparison is < on the keys.                                            *)

KeyLt(x, y) == XLt(x.score, y.score)

Reverse(s) == [i \in 1 .. Len(s) |-> s[Len(s) + 1 - i]]

\* length of the run starting at s[1]: strictly descending if desc, else
\* non-descending
RECURSIVE RunLength(_, _, _)
RunLength(s, n, desc) ==
    IF n = Len(s) THEN n
    ELSE IF KeyLt(s[n + 1], s[n]) = desc THEN RunLength(s, n + 1, desc)
    ELSE n

\* where binarysort puts the pivot in the sorted prefix s[l .. r-1]
RECURSIVE BinaryPos(_, _, _, _)
BinaryPos(s, pivot, l, r) ==
    IF l >= r THEN l
    ELSE LET p == l + ((r - l) \div 2)
         IN  IF KeyLt(pivot, s[p]) THEN BinaryPos(s, pivot, l, p)
             ELSE BinaryPos(s, pivot, p + 1, r)

\* binarysort: s[1 .. start-1] is sorted, insert s[start], s[start+1], ...
RECURSIVE BinarySort(_, _)
BinarySort(s, start) ==
    IF start > Len(s) THEN s
    ELSE LET pivot == s[start]
             l     == BinaryPos(s, pivot, 1, start)
             moved == [i \in 1 .. Len(s) |->
                          IF i < l \/ i > start THEN s[i]
                          ELSE IF i = l THEN pivot
                          ELSE s[i - 1]]
         IN  BinarySort(moved, start + 1)

SortAscending(s) ==
    IF Len(s) < 2 THEN s
    ELSE LET desc == KeyLt(s[2], s[1])
             n    == RunLength(s, 2, desc)
             run  == IF desc
                     THEN [i \in 1 .. Len(s) |-> IF i <= n THEN s[n + 1 - i] ELSE s[i]]
                     ELSE s
         IN  BinarySort(run, n + 1)

SortByScore(s) == Reverse(SortAscending(Reverse(s)))

-----------------------------------------------------------------------------
(* The scan loop and its control *)

\* three of the symbols of PropGuardConfig.ASSETS
Symbols == {"EURUSD", "GBPUSD", "XAUUSD"}

\* list(self.selected_symbols): the selected symbols in the iteration order
\* of the set, which is fixed for one process; the symbols are
\* interchangeable, so one order stands for all
HashOrder == <<"EURUSD", "GBPUSD", "XAUUSD">>

RECURSIVE Filter(_, _)
Filter(s, set) ==
    IF s = <<>> THEN <<>>
    ELSE IF Head(s) \in set THEN <<Head(s)>> \o Filter(Tail(s), set)
    ELSE Filter(Tail(s), set)

ListOf(set) == Filter(HashOrder, set)

\* spin_risk.setValue(0.5), in tenths of a percent
SPIN_RISK == 5

\* spin_rr.setValue(2.0), in halves
SPIN_RR == 4

\* what the provider answers during a cycle: bullish markets of different
\* volatility, a flat market (atr = 0, close = ema), a missing candle
\* series and a metadata lookup that fails inside calculate_lot
LoopFeeds ==
    { [Healthy EXCEPT !.atr = a] : a \in 1 .. MaxAtr } \cup
    { [Healthy EXCEPT !.atr = 0, !.close = 2000],
      [Healthy EXCEPT !.rates = -1],
      [Healthy EXCEPT !.lot_info_ok = FALSE] }

\* the answers that matter to the control of the loop: success or failure
ControlFeeds == { Healthy, [Healthy EXCEPT !.rates = -1] }

\* mt5.account_info(): None, or balance and equity
AccountAnswers == {None} \cup [balance : {1000}, equity : {1010}]

LoopPcs == {"check", "acct", "scan", "sleep"}

\* on_check: a checkbox changed state, the selection is recomputed
on_check(s) ==
    /\ pc # "crashed"
    /\ selected_symbols' = IF s \in selected_symbols
                           THEN selected_symbols \ {s}
                           ELSE selected_symbols \cup {s}
    /\ log_signal' = "-"
    /\ stats_signal' = None
    /\ scanner_signal' = None
    /\ UNCHANGED <<is_running, active_symbols, risk_per_trade, rr_ratio,
                   initial_equity, btn_scan, pc, todo, opportunities,
                   mt5_connected, analysed, stop_requested, start_pending,
                   run_log, input, output>>

\* toggle_scan, nothing selected: a warning box, nothing else
toggle_scan_warning ==
    /\ pc # "crashed"
    /\ ~is_running
    /\ selected_symbols = {}
    /\ log_signal' = "-"
    /\ stats_signal' = None
    /\ scanner_signal' = None
    /\ UNCHANGED <<is_running, active_symbols, risk_per_trade, rr_ratio,
                   initial_equity, selected_symbols, btn_scan, pc, todo,
                   opportunities, mt5_connected, analysed, stop_requested,
                   start_pending, run_log, input, output>>

\* toggle_scan, start branch: set_config, then QThread.start(), which
\* does nothing while the thread is still inside run()
toggle_scan_start ==
    /\ pc # "crashed"
    /\ ~is_running
    /\ selected_symbols # {}
    /\ active_symbols' = ListOf(selected_symbols)
    /\ risk_per_trade' = SPIN_RISK
    /\ rr_ratio' = SPIN_RR
    /\ log_signal' = "Quant Engine Loaded"
    /\ IF pc = "idle"
       THEN /\ pc' = "init"
            /\ run_log' = [NoRun EXCEPT !.outcome = "launched",
                                        !.equity_before = initial_equity]
       ELSE UNCHANGED <<pc, run_log>>
    /\ btn_scan' = "STOP"
    /\ start_pending' = TRUE
    /\ stats_signal' = None
    /\ scanner_signal' = None
    /\ UNCHANGED <<is_running, initial_equity, selected_symbols, todo,
                   opportunities, mt5_connected, analysed, stop_requested,
                   input, output>>

\* toggle_scan, stop branch
toggle_scan_stop ==
    /\ pc # "crashed"
    /\ is_running
    /\ is_running' = FALSE
    /\ btn_scan' = "START"
    /\ stop_requested' = TRUE
    /\ start_pending' = FALSE
    /\ log_signal' = "-"
    /\ stats_signal' = None
    /\ scanner_signal' = None
    /\ UNCHANGED <<active_symbols, risk_per_trade, rr_ratio, initial_equity,
                   selected_symbols, pc, todo, opportunities, mt5_connected,
                   analysed, run_log, input, output>>

\* an initialize step that tries again after a failure
Initialize_retry(ok) ==
    /\ pc = "init"
    /\ IF ok
       THEN /\ pc' = "equity"
            /\ mt5_connected' = TRUE
            /\ log_signal' = "-"
            /\ run_log' = [run_log EXCEPT !.connects = @ + 1]
       ELSE /\ pc' = "init"
            /\ mt5_connected' = FALSE
            /\ log_signal' = "MT5 Init Failed"
            /\ run_log' = [run_log EXCEPT !.connects = IF @ < 2 THEN @ + 1 ELSE @,
                                          !.fail_logs = IF @ < 2 THEN @ + 1 ELSE @,
                                          !.outcome = "failed"]
    /\ stats_signal' = None
    /\ scanner_signal' = None
    /\ UNCHANGED <<is_running, active_symbols, risk_per_trade, rr_ratio,
                   initial_equity, selected_symbols, btn_scan, todo,
                   opportunities, analysed, stop_requested, start_pending,
                   input, output>>

\* run(), lines 58-60: mt5.initialize()
Initialize(ok) ==
    /\ pc = "init"
    /\ IF ok
       THEN /\ pc' = "equity"
            /\ mt5_connected' = TRUE
            /\ log_signal' = "-"
            /\ run_log' = [run_log EXCEPT !.connects = @ + 1]
            /\ UNCHANGED start_pending
       ELSE /\ pc' = "idle"
            /\ mt5_connected' = FALSE
            /\ log_signal' = "MT5 Init Failed"
            /\ run_log' = [run_log EXCEPT !.connects = @ + 1,
                                          !.fail_logs = @ + 1,
                                          !.outcome = "failed"]
            /\ start_pending' = FALSE
    /\ stats_signal' = None
    /\ scanner_signal' = None
    /\ UNCHANGED <<is_running, active_symbols, risk_per_trade, rr_ratio,
                   initial_equity, selected_symbols, btn_scan, todo,
                   opportunities, analysed, stop_requested, input, output>>

\* run(), lines 62-64: account_info().equity is unguarded, a None answer
\* raises out of run() and ends the thread before the loop is entered
EnterRunning(acct) ==
    /\ pc = "equity"
    /\ IF acct = None
       THEN /\ pc' = "crashed"
            /\ log_signal' = "-"
            /\ run_log' = [run_log EXCEPT !.outcome = "crashed"]
            /\ UNCHANGED <<initial_equity, is_running, stop_requested>>
       ELSE /\ pc' = "check"
            /\ initial_equity' = acct.equity
            /\ is_running' = TRUE
            /\ stop_requested' = FALSE
            /\ log_signal' = "Scanner Started"
            /\ run_log' = [run_log EXCEPT !.outcome = "running"]
    /\ stats_signal' = None
    /\ scanner_signal' = None
    /\ UNCHANGED <<active_symbols, risk_per_trade, rr_ratio, selected_symbols,
                   btn_scan, todo, opportunities, mt5_connected, analysed,
                   start_pending, input, output>>

\* run(), line 66: while self.is_running
CheckRunning ==
    /\ pc = "check"
    /\ pc' = IF is_running THEN "acct" ELSE "shutdown"
    /\ log_signal' = "-"
    /\ stats_signal' = None
    /\ scanner_signal' = None
    /\ UNCHANGED <<is_running, active_symbols, risk_per_trade, rr_ratio,
                   initial_equity, selected_symbols, btn_scan, todo,
                   opportunities, mt5_connected, analysed, stop_requested,
                   start_pending, run_log, input, output>>

\* an account poll that reads the snapshot without the None check
PollAccount_unguarded(acct) ==
    /\ pc = "acct"
    /\ IF acct = None
       THEN /\ pc' = "crashed"
            /\ stats_signal' = None
            /\ run_log' = [run_log EXCEPT !.outcome = "crashed"]
            /\ UNCHANGED <<opportunities, todo, analysed, start_pending>>
       ELSE /\ pc' = "scan"
            /\ stats_signal' = [balance  |-> acct.balance,
                                equity   |-> acct.equity,
                                daily_pl |-> acct.equity - initial_equity]
            /\ run_log' = [run_log EXCEPT !.emitted = TRUE]
            /\ opportunities' = <<>>
            /\ todo' = active_symbols
            /\ analysed' = <<>>
            /\ start_pending' = FALSE
    /\ log_signal' = "-"
    /\ scanner_signal' = None
    /\ UNCHANGED <<is_running, active_symbols, risk_per_trade, rr_ratio,
                   initial_equity, selected_symbols, btn_scan, mt5_connected,
                   stop_requested, input, output>>

\* run(), lines 67-77: the account poll, the stats, the empty list and the
\* start of the for loop, which takes the list active_symbols names now
PollAccount(acct) ==
    /\ pc = "acct"
    /\ pc' = "scan"
    /\ IF acct = None
       THEN /\ stats_signal' = None
            /\ UNCHANGED run_log
       ELSE /\ stats_signal' = [balance  |-> acct.balance,
                                equity   |-> acct.equity,
                                daily_pl |-> acct.equity - initial_equity]
            /\ run_log' = [run_log EXCEPT !.emitted = TRUE]
    /\ opportunities' = <<>>
    /\ todo' = active_symbols
    /\ analysed' = <<>>
    /\ start_pending' = FALSE
    /\ log_signal' = "-"
    /\ scanner_signal' = None
    /\ UNCHANGED <<is_running, active_symbols, risk_per_trade, rr_ratio,
                   initial_equity, selected_symbols, btn_scan, mt5_connected,
                   stop_requested, input, output>>

\* a for loop that breaks off as soon as is_running is cleared
AnalyzeNext_interruptible(f) ==
    /\ pc = "scan"
    /\ todo # <<>>
    /\ IF is_running
       THEN /\ LET data == analyze_symbol(Head(todo), f, rr_ratio, risk_per_trade)
               IN  opportunities' = IF data = None THEN opportunities
                                    ELSE Append(opportunities, data)
            /\ analysed' = Append(analysed, [symbol |-> Head(todo), feed |-> f])
            /\ todo' = Tail(todo)
            /\ pc' = pc
       ELSE /\ pc' = "shutdown"
            /\ UNCHANGED <<opportunities, analysed, todo>>
    /\ log_signal' = "-"
    /\ stats_signal' = None
    /\ scanner_signal' = None
    /\ UNCHANGED <<is_running, active_symbols, risk_per_trade, rr_ratio,
                   initial_equity, selected_symbols, btn_scan,
                   mt5_connected, stop_requested, start_pending, run_log,
                   input, output>>

\* run(), lines 77-79: one pass of the for loop
AnalyzeNext(f) ==
    /\ pc = "scan"
    /\ todo # <<>>
    /\ LET data == analyze_symbol(Head(todo), f, rr_ratio, risk_per_trade)
       IN  opportunities' = IF data = None THEN opportunities
                            ELSE Append(opportunities, data)
    /\ analysed' = Append(analysed, [symbol |-> Head(todo), feed |-> f])
    /\ todo' = Tail(todo)
    /\ log_signal' = "-"
    /\ stats_signal' = None
    /\ scanner_signal' = None
    /\ UNCHANGED <<is_running, active_symbols, risk_per_trade, rr_ratio,
                   initial_equity, selected_symbols, btn_scan, pc,
                   mt5_connected, stop_requested, start_pending, run_log,
                   input, output>>

\* run(), lines 82-84: sort in place and publish (the timestamp is left out)
Publish ==
    /\ pc = "scan"
    /\ todo = <<>>
    /\ opportunities' = SortByScore(opportunities)
    /\ scanner_signal' = [opportunities |-> SortByScore(opportunities)]
    /\ run_log' = [run_log EXCEPT !.emitted = TRUE]
    /\ pc' = "sleep"
    /\ log_signal' = "-"
    /\ stats_signal' = None
    /\ UNCHANGED <<is_running, active_symbols, risk_per_trade, rr_ratio,
                   initial_equity, selected_symbols, btn_scan, todo,
                   mt5_connected, analysed, stop_requested, start_pending,
                   input, output>>

\* run(), line 86: time.sleep(1)
Sleep ==
    /\ pc = "sleep"
    /\ pc' = "check"
    /\ analysed' = <<>>
    /\ log_signal' = "-"
    /\ stats_signal' = None
    /\ scanner_signal' = None
    /\ UNCHANGED <<is_running, active_symbols, risk_per_trade, rr_ratio,
                   initial_equity, selected_symbols, btn_scan, todo,
                   opportunities, mt5_connected, stop_requested,
                   start_pending, run_log, input, output>>

\* run(), lines 88-89: mt5.shutdown(), the last log, the thread ends
Shutdown ==
    /\ pc = "shutdown"
    /\ pc' = "idle"
    /\ mt5_connected' = FALSE
    /\ log_signal' = "Scanner Stopped"
    /\ run_log' = [run_log EXCEPT !.outcome = "stopped", !.shutdowns = @ + 1]
    /\ stats_signal' = None
    /\ scanner_signal' = None
    /\ UNCHANGED <<is_running, active_symbols, risk_per_trade, rr_ratio,
                   initial_equity, selected_symbols, btn_scan, todo,
                   opportunities, analysed, stop_requested, start_pending,
                   input, output>>

Worker ==
    \/ \E ok \in BOOLEAN : Initialize(ok)
    \/ \E acct \in AccountAnswers : EnterRunning(acct)
    \/ CheckRunning
    \/ \E acct \in AccountAnswers : PollAccount(acct)
    \/ \E f \in ControlFeeds : AnalyzeNext(f)
    \/ Publish
    \/ Sleep
    \/ Shutdown

Init ==
    /\ Constructed
    /\ input = None
    /\ output = None

Next ==
    \/ \E s \in Symbols : on_check(s)
    \/ toggle_scan_warning
    \/ toggle_scan_start
    \/ toggle_scan_stop
    \/ \E ok \in BOOLEAN : Initialize(ok)
    \/ \E acct \in AccountAnswers : EnterRunning(acct)
    \/ CheckRunning
    \/ \E acct \in AccountAnswers : PollAccount(acct)
    \/ \E f \in ControlFeeds : AnalyzeNext(f)
    \/ Publish
    \/ Sleep
    \/ Shutdown

Spec == Init /\ [][Next]_vars

\* the worker thread is scheduled and its blocking calls return
SpecFair == Spec /\ WF_vars(Worker)

-----------------------------------------------------------------------------
(* The running loop on its own: the state after the user has checked some  *)
(* symbols and started the scanner (on_check, toggle_scan_start,           *)
(* Initialize(TRUE), EnterRunning), then the cycles of run() under every   *)
(* answer of LoopFeeds, until the user stops it.                           *)

InitScan ==
    /\ \E sel \in SUBSET Symbols :
          /\ sel # {}
          /\ selected_symbols = sel
          /\ active_symbols = ListOf(sel)
    /\ is_running = TRUE
    /\ risk_per_trade = SPIN_RISK
    /\ rr_ratio = SPIN_RR
    /\ initial_equity = 1010
    /\ btn_scan = "STOP"
    /\ pc = "check"
    /\ todo = <<>>
    /\ opportunities = <<>>
    /\ mt5_connected = TRUE
    /\ log_signal = "Scanner Started"
    /\ stats_signal = None
    /\ scanner_signal = None
    /\ analysed = <<>>
    /\ stop_requested = FALSE
    /\ start_pending = TRUE
    /\ run_log = [NoRun EXCEPT !.outcome = "running", !.connects = 1]
    /\ input = None
    /\ output = None

NextScan ==
    \/ toggle_scan_stop
    \/ CheckRunning
    \/ \E acct \in AccountAnswers : PollAccount(acct)
    \/ \E f \in LoopFeeds : AnalyzeNext(f)
    \/ Publish
    \/ Sleep
    \/ Shutdown

SpecScan == InitScan /\ [][NextScan]_vars

-----------------------------------------------------------------------------
(* analyze_symbol as a function of what the provider answers *)

InitAnalyze ==
    /\ Constructed
    /\ input \in AnalyzeInputs
    /\ output = Pending

CallAnalyze ==
    /\ output = Pending
    /\ output' = analyze_symbol(input.symbol, input.feed, input.rr, input.risk)
    /\ UNCHANGED <<loop_vars, input>>

SpecAnalyze == InitAnalyze /\ [][CallAnalyze]_vars

-----------------------------------------------------------------------------
(* calculate_lot as a function of account, metadata and stop distance *)

InitLot ==
    /\ Constructed
    /\ input \in {i \in LotInputs : i.volume_min <= i.volume_max}
    /\ output = Pending

CallLot ==
    /\ output = Pending
    /\ output' = calculate_lot(input, input.risk, input.sl_points)
    /\ UNCHANGED <<loop_vars, input>>

SpecLot == InitLot /\ [][CallLot]_vars

-----------------------------------------------------------------------------
(* Properties *)

Published == "opportunities" \in DOMAIN scanner_signal

PublishedSymbols ==
    {scanner_signal.opportunities[i].symbol :
        i \in 1 .. Len(scanner_signal.opportunities)}

\* a call of the analysis chain failed: a fetch answered None or too few
\* bars, an indicator raised, the spread division hit a zero point size
StepFails(f) ==
    \/ f.rates = -1 \/ f.rates < BARS
    \/ ~f.ta_ok
    \/ ~f.tick_ok
    \/ ~f.info_ok
    \/ f.point = 0
    \/ ~f.acct_ok
    \/ ~f.lot_info_ok

OpportunityFields ==
    {"symbol", "score", "bias", "price", "sl", "tp", "lots", "adx"}

\* C1: in every published ScanResult, a symbol one of whose analysis steps
\* failed is absent, and every symbol whose steps all succeeded is present
\* with a full Opportunity.
C1_FaultIsolation ==
    Published =>
        \A i \in 1 .. Len(analysed) :
            IF StepFails(analysed[i].feed)
            THEN analysed[i].symbol \notin PublishedSymbols
            ELSE \E k \in 1 .. Len(scanner_signal.opportunities) :
                    /\ scanner_signal.opportunities[k].symbol = analysed[i].symbol
                    /\ DOMAIN scanner_signal.opportunities[k] = OpportunityFields

Analysed == output # Pending

\* every call analyze_symbol guards, or that raises, succeeded
ChainSucceeds(f) ==
    /\ f.rates >= BARS /\ f.ta_ok /\ f.tick_ok
    /\ f.info_ok /\ f.point # 0 /\ f.acct_ok

\* C2 as stated: analyze_symbol emits no Opportunity whose bias is NEUTRAL.
C2_NeutralSkipped ==
    (Analysed /\ IsOpportunity(output)) => output.bias # "NEUTRAL"

\* C2 amended: a symbol whose close equals the trend filter is not skipped.
\* When the chain succeeds analyze_symbol emits an Opportunity with bias
\* NEUTRAL, momentum sub-score 0 and the setup of the non-BULLISH branch:
\* entry at the bid, stop 1.5 ATR above it, target rr stops below it.
C2_NeutralEmitted ==
    (Analysed /\ ChainSucceeds(input.feed) /\ input.feed.close = input.feed.ema) =>
        /\ IsOpportunity(output)
        /\ output.bias = "NEUTRAL"
        /\ score_mom(input.feed) = Num(0)
        /\ output.price = input.feed.bid
        /\ output.sl = 2 * input.feed.bid + 3 * input.feed.atr
        /\ output.tp = 4 * input.feed.bid - 3 * input.feed.atr * input.rr

C2_Witness ==
    Analysed /\ IsOpportunity(output) /\ output.bias = "NEUTRAL"

\* the preconditions of C3
SizingDefined(i) ==
    /\ i.balance * i.risk > 0
    /\ XLt(Num(0), i.sl_points)
    /\ i.trade_tick_value > 0
    /\ i.volume_step > 0
    /\ i.volume_min <= i.volume_max

\* C3 as stated: lots is a non-negative multiple of volume_step inside
\* [volume_min, volume_max].
C3_StepMultipleInRange ==
    (Analysed /\ SizingDefined(input)) =>
        /\ output.lots >= 0
        /\ output.lots % input.volume_step = 0
        /\ input.volume_min <= output.lots
        /\ output.lots <= input.volume_max

\* k * volume_step is a multiple of the step nearest to the raw size
\* risk_money / (sl_points * tick_value)
NearestStep(i, k) ==
    LET num == i.balance * i.risk * i.sl_points.d
        den == 1000 * i.sl_points.n * i.trade_tick_value
    IN  2 * Abs(num - k * i.volume_step * den) <= i.volume_step * den

\* C3 amended: lots lies in [volume_min, volume_max]; it is the multiple of
\* volume_step nearest to the raw size when that multiple lies in the range,
\* volume_min when the multiple is below it and volume_max when it is above.
\* So lots is a multiple of volume_step unless it was raised to a
\* volume_min or capped at a volume_max that is not one.
C3_LotInRange ==
    (Analysed /\ SizingDefined(input)) =>
        /\ output.lots >= 0
        /\ input.volume_min <= output.lots
        /\ output.lots <= input.volume_max
        /\ \E k \in 0 .. 200 :
              /\ NearestStep(input, k)
              /\ output.lots = IF k * input.volume_step > input.volume_max
                               THEN input.volume_max
                               ELSE IF k * input.volume_step < input.volume_min
                               THEN input.volume_min
                               ELSE k * input.volume_step
        /\ \/ output.lots % input.volume_step = 0
           \/ output.lots = input.volume_min
           \/ output.lots = input.volume_max

C3_Witness ==
    /\ Analysed /\ SizingDefined(input)
    /\ output.lots = input.volume_min
    /\ output.lots % input.volume_step # 0

InUnit(x) == IsFinite(x) /\ XLe(Num(0), x) /\ XLe(x, Num(1))

\* the inputs C4 ranges over
ScoringInputs(f) ==
    /\ f.atr > 0
    /\ f.adx \in 0 .. 100
    /\ f.rsi \in 0 .. 100
    /\ f.ask >= f.bid
    /\ f.point > 0

\* C4: whenever analyze_symbol emits an Opportunity for inputs with positive
\* volatility, oscillators in [0,100], ask >= bid and a positive point size,
\* each of the five sub-scores lies in [0,1].
C4_SubScoresInUnit ==
    (Analysed /\ IsOpportunity(output) /\ ScoringInputs(input.feed)) =>
        /\ InUnit(score_trend(input.feed))
        /\ InUnit(score_mom(input.feed))
        /\ InUnit(score_vol(input.feed))
        /\ InUnit(score_struct(input.feed))
        /\ InUnit(score_liq(input.feed))

\* a spread wider than a fifth of the ATR and a volatility above the band:
\* the liquidity and volatility clamps both act
C4_Witness ==
    /\ Analysed /\ IsOpportunity(output) /\ ScoringInputs(input.feed)
    /\ 5 * (input.feed.ask - input.feed.bid) > input.feed.atr
    /\ score_liq(input.feed) = Num(0)
    /\ score_vol(input.feed) = Num(1)

RECURSIVE PositionOf(_, _)
PositionOf(s, sym) ==
    IF s = <<>> THEN 0
    ELSE IF Head(s).symbol = sym THEN 1
    ELSE 1 + PositionOf(Tail(s), sym)

\* C5: in every published ScanResult no opportunity is followed by one of
\* greater score, and opportunities of equal score keep the order in which
\* their symbols were analysed.
C5_RankedStable ==
    Published =>
        \A i, j \in 1 .. Len(scanner_signal.opportunities) :
            i < j =>
              LET a == scanner_signal.opportunities[i]
                  b == scanner_signal.opportunities[j]
              IN  /\ ~XLt(a.score, b.score)
                  /\ a.score = b.score =>
                        PositionOf(analysed, a.symbol) < PositionOf(analysed, b.symbol)

\* C6: the worker leaves the loop of run() only after toggle_scan has taken
\* its stop branch in this run; no answer of the provider takes it out.
C6_LeavesLoopOnlyOnStop ==
    [][(pc \in LoopPcs /\ pc' \notin LoopPcs) => stop_requested]_vars

\* a cycle with a failed analysis has been published and the loop goes on
C6_Witness ==
    /\ pc = "sleep" /\ ~stop_requested /\ is_running
    /\ \E i \in 1 .. Len(analysed) : StepFails(analysed[i].feed)

Symbols_of(s) == [i \in 1 .. Len(s) |-> s[i].symbol]

Stopped ==
    /\ pc = "idle"
    /\ ~mt5_connected
    /\ run_log.outcome = "stopped"
    /\ run_log.shutdowns = 1

\* C7: after a stop command the cycle in progress visits every remaining
\* symbol and publishes, the next check of is_running ends the loop without
\* another cycle, and the worker reaches Stopped having closed the
\* connection once.
C7_CooperativeStop ==
    /\ [][(stop_requested /\ pc = "scan") =>
            /\ pc' \in {"scan", "sleep"}
            /\ Symbols_of(analysed') \o todo' = Symbols_of(analysed) \o todo
            /\ pc' = "sleep" => (todo' = <<>> /\ "opportunities" \in DOMAIN scanner_signal')]_vars
    /\ [][(stop_requested /\ pc = "check") => pc' \in {"check", "shutdown"}]_vars
    /\ [](run_log.shutdowns <= 1)
    /\ (stop_requested /\ pc \in LoopPcs) ~> Stopped

\* a cycle was published after the stop command had been given
C7_Witness ==
    /\ stop_requested /\ pc = "sleep" /\ Published
    /\ Len(analysed) >= 2

\* C8: when mt5.initialize() fails the start attempt ends there: the worker
\* is back to idle with is_running false, initial_equity as it was, nothing
\* published, one failure log and one connection attempt.
C8_ConnectionFailure ==
    run_log.outcome = "failed" =>
        /\ pc = "idle"
        /\ ~is_running
        /\ ~mt5_connected
        /\ initial_equity = run_log.equity_before
        /\ ~run_log.emitted
        /\ run_log.fail_logs = 1
        /\ run_log.connects = 1

\* the failure has just been logged, after an earlier run that had captured
\* an equity
C8_Witness ==
    /\ run_log.outcome = "failed"
    /\ log_signal = "MT5 Init Failed"
    /\ initial_equity # 0

\* C9: with a zero tick value or a zero stop distance, and every other
\* input available, the symbol is emitted with its score, bias, entry, stop
\* and target, and zero lots.
C9_DegenerateSizing ==
    ( /\ Analysed
      /\ ChainSucceeds(input.feed) /\ input.feed.lot_info_ok
      /\ \/ input.feed.trade_tick_value = 0
         \/ ATR_MULTIPLIER_HALVES * input.feed.atr = 0 ) =>
        /\ IsOpportunity(output)
        /\ DOMAIN output = OpportunityFields
        /\ output.lots = 0
        /\ output.score = final_score(input.feed)
        /\ output.bias = Bias(input.feed)
        /\ output.price = TradeSetup(input.feed, input.rr).entry
        /\ output.sl = TradeSetup(input.feed, input.rr).sl
        /\ output.tp = TradeSetup(input.feed, input.rr).tp

\* a zero stop distance with a tick value that is not zero
C9_Witness ==
    /\ Analysed /\ IsOpportunity(output) /\ output.lots = 0
    /\ input.feed.atr = 0 /\ input.feed.trade_tick_value # 0

\* C10: a start branch that toggle_scan has taken is served: the worker
\* thread does not end while the start is waiting for its first cycle.
C10_NoStartLost ==
    start_pending => pc # "idle"

=============================================================================
